---- MODULE Spec2Model ----
(***************************************************************************)
(* Model of lib/regez/regez.h: the C binding that exposes POSIX regcomp /  *)
(* regexec to the host language.                                           *)
(*                                                                         *)
(* The binding's own code is modelled statement by statement: isMatch      *)
(* (lines 14-17), init (lines 19-27), deinit (lines 31-33) and the two     *)
(* layout functions (lines 6-12).  The regular-expression engine itself    *)
(* is libc (<regex.h>, line 3) and is not part of the repository; it is    *)
(* modelled as an arbitrary but fixed pair of tables, regcomp_rc and       *)
(* regexec_rc, chosen in Init: every property checked below therefore      *)
(* holds for every engine that is a function of its arguments.             *)
(***************************************************************************)
EXTENDS Integers, FiniteSets, Sequences, TLC

\* ------------------------------------------------------------- bounds
NumCallers == 2     \* concurrent callers of the binding
MaxHandles == 2     \* regex_t blocks the heap can hold at once

\* ------------------------------------------------------------- constants
REG_NOMATCH == 1    \* <regex.h>: regexec found no match
REG_BADPAT == 2     \* <regex.h>: regcomp rejects the pattern's syntax
REG_ESPACE == 12    \* <regex.h>: regcomp runs out of space for the pattern
NOCALL == -1        \* nmatch before the frame has called the engine
NULL == 0
sizeof_regex_t == 64    \* sizeof(regex_t), x86-64 glibc
alignof_regex_t == 8    \* alignof(regex_t), x86-64 glibc

\* cflags passed by init: REG_EXTENDED | REG_NOSUB
InitCflags == {"REG_EXTENDED", "REG_NOSUB"}

\* The C strings callers pass, as pattern or as input (both char const *).
Texts == {"s1", "s2"}
Callers == 1..NumCallers
Addrs == 1..MaxHandles

VARIABLES
    regcomp_rc,   \* libc: regcomp's return code for each pattern text
    regexec_rc,   \* libc: regexec's return code for (compiled pattern, input)
    heap,         \* malloc'ed regex_t blocks, by address
    handles,      \* pointers init has returned and deinit has not freed
    atCompile,    \* history: the regex_t contents regcomp left in a handle
    pc,           \* where each caller is
    re,           \* local/parameter re
    pattern,      \* parameter pattern (init)
    input,        \* parameter input (isMatch)
    nmatch,       \* the nmatch argument the call passed to regexec
    pmatch,       \* local regmatch_t pmatch[0]
    rc,           \* value returned by the engine call
    onProgram,    \* history: the regex_t contents the isMatch call was made on
    overlap,      \* history: another isMatch ran on the same handle meanwhile
    last,         \* history: the binding function that returned last
    ret           \* its return value

vars == <<regcomp_rc, regexec_rc, heap, handles, atCompile, pc, re, pattern,
          input, nmatch, pmatch, rc, onProgram, overlap, last, ret>>

libc == <<regcomp_rc, regexec_rc>>
locals == <<re, pattern, input, nmatch, pmatch, rc>>

\* ------------------------------------------------------------- heap cells
FreeCell == [state |-> "free", buffer |-> "", cflags |-> {}]
UninitCell == [state |-> "uninit", buffer |-> "", cflags |-> {}]
\* What a successful regcomp(re, p, cflags) leaves in *re: the program
\* compiled from p under cflags.
Compiled(p, cflags) == [state |-> "compiled", buffer |-> p, cflags |-> cflags]

Allocated == {a \in Addrs : heap[a].state # "free"}

\* malloc(sizeof(regex_t)): a free block, or NULL when there is none or the
\* allocator gives up.
MallocResults == {NULL} \cup
    (IF Addrs \ Allocated = {} THEN {}
     ELSE {CHOOSE a \in Addrs \ Allocated : \A b \in Addrs \ Allocated : a <= b})

\* ------------------------------------------------------------- libc
\* regexec(preg, string, nmatch, pmatch, eflags): reads *preg, never writes it.
regexec(preg, string) == regexec_rc[preg.buffer][string]

\* The slots of pmatch regexec fills: none when nmatch = 0 or REG_NOSUB.
regexec_pmatch(preg, n, pm) ==
    IF n = 0 \/ "REG_NOSUB" \in preg.cflags THEN pm
    ELSE [i \in 1..n |-> <<0, 0>>]

\* ------------------------------------------------------------- Init
Init ==
    /\ regcomp_rc \in [Texts -> {0, REG_BADPAT, REG_ESPACE}]
    /\ regexec_rc \in [Texts -> [Texts -> {0, REG_NOMATCH}]]
    /\ \A p \in Texts : regcomp_rc[p] # 0 =>
            regexec_rc[p] = [s \in Texts |-> REG_NOMATCH]
    /\ heap = [a \in Addrs |-> FreeCell]
    /\ handles = {}
    /\ atCompile = [a \in Addrs |-> FreeCell]
    /\ pc = [t \in Callers |-> "idle"]
    /\ re = [t \in Callers |-> NULL]
    /\ pattern = [t \in Callers |-> ""]
    /\ input = [t \in Callers |-> ""]
    /\ nmatch = [t \in Callers |-> NOCALL]
    /\ pmatch = [t \in Callers |-> <<>>]
    /\ rc = [t \in Callers |-> 0]
    /\ onProgram = [t \in Callers |-> FreeCell]
    /\ overlap = [t \in Callers |-> FALSE]
    /\ last = [t \in Callers |-> "none"]
    /\ ret = [t \in Callers |-> 0]

\* A call starts with a fresh frame.
Frame(t, label, r, p, s) ==
    /\ pc[t] = "idle"
    /\ pc' = [pc EXCEPT ![t] = label]
    /\ re' = [re EXCEPT ![t] = r]
    /\ pattern' = [pattern EXCEPT ![t] = p]
    /\ input' = [input EXCEPT ![t] = s]
    /\ nmatch' = [nmatch EXCEPT ![t] = NOCALL]
    /\ pmatch' = [pmatch EXCEPT ![t] = <<>>]
    /\ rc' = [rc EXCEPT ![t] = 0]

\* History of a frame that is no isMatch call.
NoMatchHistory(t) ==
    /\ overlap' = [overlap EXCEPT ![t] = FALSE]
    /\ onProgram' = [onProgram EXCEPT ![t] = FreeCell]

Enter(t, label, r, p, s) ==
    /\ Frame(t, label, r, p, s)
    /\ last' = [last EXCEPT ![t] = "none"]
    /\ ret' = [ret EXCEPT ![t] = 0]

Return(t, fn, value) ==
    /\ pc' = [pc EXCEPT ![t] = "idle"]
    /\ last' = [last EXCEPT ![t] = fn]
    /\ ret' = [ret EXCEPT ![t] = value]

\* ------------------------------------------------------------- layout
\* size_t sizeof_regex_t() { return sizeof(regex_t); }
SizeofRegexT(t) ==
    /\ Frame(t, "idle", NULL, "", "")
    /\ last' = [last EXCEPT ![t] = "sizeof_regex_t"]
    /\ ret' = [ret EXCEPT ![t] = sizeof_regex_t]
    /\ NoMatchHistory(t)
    /\ UNCHANGED <<libc, heap, handles, atCompile>>

\* uint16_t alignof_regex_t() { return alignof(regex_t); }
AlignofRegexT(t) ==
    /\ Frame(t, "idle", NULL, "", "")
    /\ last' = [last EXCEPT ![t] = "alignof_regex_t"]
    /\ ret' = [ret EXCEPT ![t] = alignof_regex_t]
    /\ NoMatchHistory(t)
    /\ UNCHANGED <<libc, heap, handles, atCompile>>

\* ------------------------------------------------------------- isMatch
InIsMatch(t) == pc[t] \in {"isMatch_regexec", "isMatch_return"}

OthersOn(t, h) == {u \in Callers \ {t} : InIsMatch(u) /\ re[u] = h}

\* bool isMatch(regex_t *re, char const *input) {  regmatch_t pmatch[0];
IsMatchCall(t, h, s) ==
    /\ h \in handles
    /\ Enter(t, "isMatch_regexec", h, "", s)
    /\ overlap' = [u \in Callers |->
                     IF u = t THEN OthersOn(t, h) # {}
                     ELSE IF u \in OthersOn(t, h) THEN TRUE
                     ELSE overlap[u]]
    /\ onProgram' = [onProgram EXCEPT ![t] = atCompile[h]]
    /\ UNCHANGED <<libc, heap, handles, atCompile>>

\* Mutant: the engine's return code is kept in a static int shared by all
\* calls, so a call still waiting to return sees the latest call's code.
IsMatchRegexec_staticRc(t) ==
    /\ pc[t] = "isMatch_regexec"
    /\ nmatch' = [nmatch EXCEPT ![t] = 0]
    /\ rc' = [u \in Callers |->
                IF u = t \/ pc[u] = "isMatch_return"
                THEN regexec(heap[re[t]], input[t]) ELSE rc[u]]
    /\ pmatch' = [pmatch EXCEPT ![t] = regexec_pmatch(heap[re[t]], 0, pmatch[t])]
    /\ pc' = [pc EXCEPT ![t] = "isMatch_return"]
    /\ UNCHANGED <<libc, heap, handles, atCompile, re, pattern, input,
                   onProgram, overlap, last, ret>>

\* Mutant: regcomp is called where regexec was meant, compiling the input
\* into the handle.
IsMatchRegexec_regcomp(t) ==
    /\ pc[t] = "isMatch_regexec"
    /\ nmatch' = [nmatch EXCEPT ![t] = 0]
    /\ rc' = [rc EXCEPT ![t] = regcomp_rc[input[t]]]
    /\ heap' = IF regcomp_rc[input[t]] = 0
               THEN [heap EXCEPT ![re[t]] = Compiled(input[t], InitCflags)]
               ELSE heap
    /\ pc' = [pc EXCEPT ![t] = "isMatch_return"]
    /\ UNCHANGED <<libc, handles, atCompile, re, pattern, input, pmatch,
                   onProgram, overlap, last, ret>>

\* regexec(re, input, 0, pmatch, 0)
IsMatchRegexec(t) ==
    /\ pc[t] = "isMatch_regexec"
    /\ nmatch' = [nmatch EXCEPT ![t] = 0]
    /\ rc' = [rc EXCEPT ![t] = regexec(heap[re[t]], input[t])]
    /\ pmatch' = [pmatch EXCEPT ![t] = regexec_pmatch(heap[re[t]], 0, pmatch[t])]
    /\ pc' = [pc EXCEPT ![t] = "isMatch_return"]
    /\ UNCHANGED <<libc, heap, handles, atCompile, re, pattern, input,
                   onProgram, overlap, last, ret>>

\* Mutant: return regexec(...); without the comparison, so that every
\* nonzero code converts to true.
IsMatchReturn_noCompare(t) ==
    /\ pc[t] = "isMatch_return"
    /\ Return(t, "isMatch", IF rc[t] # 0 THEN 1 ELSE 0)
    /\ UNCHANGED <<libc, heap, handles, atCompile, locals, onProgram, overlap>>

\* Mutant: the result is read from pmatch[0], which a zero-length array does
\* not hold: an indeterminate value.
IsMatchReturn_pmatch(t) ==
    /\ pc[t] = "isMatch_return"
    /\ \E v \in {0, 1} : Return(t, "isMatch", v)
    /\ UNCHANGED <<libc, heap, handles, atCompile, locals, onProgram, overlap>>

\* return ... == 0;
IsMatchReturn(t) ==
    /\ pc[t] = "isMatch_return"
    /\ Return(t, "isMatch", IF rc[t] = 0 THEN 1 ELSE 0)
    /\ UNCHANGED <<libc, heap, handles, atCompile, locals, onProgram, overlap>>

\* ------------------------------------------------------------- init
\* regex_t *init(char const *pattern) {
InitCall(t, p) ==
    /\ Enter(t, "init_malloc", NULL, p, "")
    /\ NoMatchHistory(t)
    /\ UNCHANGED <<libc, heap, handles, atCompile>>

\* re = (regex_t *) malloc(sizeof(regex_t));
InitMalloc(t) ==
    /\ pc[t] = "init_malloc"
    /\ \E a \in MallocResults :
          /\ re' = [re EXCEPT ![t] = a]
          /\ heap' = IF a = NULL THEN heap ELSE [heap EXCEPT ![a] = UninitCell]
    /\ pc' = [pc EXCEPT ![t] = "init_regcomp"]
    /\ UNCHANGED <<libc, handles, atCompile, pattern, input, nmatch, pmatch,
                   rc, onProgram, overlap, last, ret>>

\* if (regcomp(re, pattern, REG_EXTENDED | REG_NOSUB))
InitRegcomp(t) ==
    /\ pc[t] = "init_regcomp"
    /\ re[t] # NULL
    /\ rc' = [rc EXCEPT ![t] = regcomp_rc[pattern[t]]]
    /\ IF regcomp_rc[pattern[t]] = 0
       THEN /\ heap' = [heap EXCEPT ![re[t]] = Compiled(pattern[t], InitCflags)]
            /\ atCompile' = [atCompile EXCEPT ![re[t]] =
                                Compiled(pattern[t], InitCflags)]
            /\ pc' = [pc EXCEPT ![t] = "init_return"]
       ELSE /\ UNCHANGED <<heap, atCompile>>
            /\ pc' = [pc EXCEPT ![t] = "init_free"]
    /\ UNCHANGED <<libc, handles, re, pattern, input, nmatch, pmatch,
                   onProgram, overlap, last, ret>>

\* malloc returned NULL and init did not look: regcomp writes through the
\* null pointer and the process dies, taking its memory with it.
InitRegcompNull(t) ==
    /\ pc[t] = "init_regcomp"
    /\ re[t] = NULL
    /\ pc' = [u \in Callers |-> "crashed"]
    /\ heap' = [a \in Addrs |-> FreeCell]
    /\ handles' = {}
    /\ atCompile' = [a \in Addrs |-> FreeCell]
    /\ re' = [u \in Callers |-> NULL]
    /\ pattern' = [u \in Callers |-> ""]
    /\ input' = [u \in Callers |-> ""]
    /\ nmatch' = [u \in Callers |-> NOCALL]
    /\ pmatch' = [u \in Callers |-> <<>>]
    /\ rc' = [u \in Callers |-> 0]
    /\ onProgram' = [u \in Callers |-> FreeCell]
    /\ overlap' = [u \in Callers |-> FALSE]
    /\ last' = [u \in Callers |-> "none"]
    /\ ret' = [u \in Callers |-> 0]
    /\ UNCHANGED libc

\* Mutant: return NULL without free(re).
InitFree_leak(t) ==
    /\ pc[t] = "init_free"
    /\ Return(t, "init", NULL)
    /\ UNCHANGED <<libc, heap, handles, atCompile, locals, onProgram, overlap>>

\* free(re); return NULL;
InitFree(t) ==
    /\ pc[t] = "init_free"
    /\ heap' = [heap EXCEPT ![re[t]] = FreeCell]
    /\ Return(t, "init", NULL)
    /\ UNCHANGED <<libc, handles, atCompile, locals, onProgram, overlap>>

\* return re;
InitReturn(t) ==
    /\ pc[t] = "init_return"
    /\ handles' = handles \cup {re[t]}
    /\ Return(t, "init", re[t])
    /\ UNCHANGED <<libc, heap, atCompile, locals, onProgram, overlap>>

\* ------------------------------------------------------------- deinit
\* void deinit(regex_t *re) { free(re); }
\* Callers release a handle once, after all matches on it have completed.
Deinit(t, h) ==
    /\ h \in handles
    /\ OthersOn(t, h) = {}
    /\ Frame(t, "idle", h, "", "")
    /\ last' = [last EXCEPT ![t] = "deinit"]
    /\ ret' = [ret EXCEPT ![t] = 0]
    /\ heap' = [heap EXCEPT ![h] = FreeCell]
    /\ handles' = handles \ {h}
    /\ atCompile' = [atCompile EXCEPT ![h] = FreeCell]
    /\ NoMatchHistory(t)
    /\ UNCHANGED libc

\* ------------------------------------------------------------- Next
Next ==
    \/ \E t \in Callers : SizeofRegexT(t)
    \/ \E t \in Callers : AlignofRegexT(t)
    \/ \E t \in Callers, h \in Addrs, s \in Texts : IsMatchCall(t, h, s)
    \/ \E t \in Callers : IsMatchRegexec(t)
    \/ \E t \in Callers : IsMatchReturn(t)
    \/ \E t \in Callers, p \in Texts : InitCall(t, p)
    \/ \E t \in Callers : InitMalloc(t)
    \/ \E t \in Callers : InitRegcomp(t)
    \/ \E t \in Callers : InitRegcompNull(t)
    \/ \E t \in Callers : InitFree(t)
    \/ \E t \in Callers : InitReturn(t)
    \/ \E t \in Callers, h \in Addrs : Deinit(t, h)

Spec == Init /\ [][Next]_vars

\* ------------------------------------------------------------- properties
Returned(t, fn) == pc[t] = "idle" /\ last[t] = fn

InInit(t) == pc[t] \in {"init_regcomp", "init_free", "init_return"}

\* The blocks malloc has given to the init calls still running.
InitBlocks == {re[t] : t \in {u \in Callers : InInit(u)}} \ {NULL}

\* What isMatch returns on a handle holding prog and an input s when nothing
\* else runs: 1 if the engine accepts, 0 otherwise.
Alone(prog, s) == IF regexec_rc[prog.buffer][s] = 0 THEN 1 ELSE 0

\* C1: isMatch returns true exactly when the engine call on the handle's
\* program and the input returned 0, and false when it returned REG_NOMATCH;
\* the value is a boolean, never an error code, and the engine was asked for
\* zero capture slots and wrote none.
C1_IsMatchIffEngineAccepts ==
    \A t \in Callers :
        /\ Returned(t, "isMatch") =>
              /\ ret[t] \in {0, 1}
              /\ rc[t] = regexec_rc[onProgram[t].buffer][input[t]]
              /\ (ret[t] = 1) <=> (rc[t] = 0)
              /\ (rc[t] = REG_NOMATCH) => (ret[t] = 0)
        /\ (pc[t] = "isMatch_return" \/ Returned(t, "isMatch")) =>
              /\ nmatch[t] = 0
              /\ pmatch[t] = <<>>

\* C1 witness: one call has returned true and another has returned false.
C1_Witness ==
    \E t, u \in Callers :
        /\ Returned(t, "isMatch") /\ ret[t] = 1 /\ rc[t] = 0
        /\ Returned(u, "isMatch") /\ ret[u] = 0 /\ rc[u] = REG_NOMATCH

C3_HandleUnchanged ==
    \A h \in handles :
        /\ heap[h].state = "compiled"
        /\ heap[h] = atCompile[h]

\* C3 witness: a matching and a non-matching call have both completed on the
\* same live handle.
C3_Witness ==
    \E t, u \in Callers :
        /\ Returned(t, "isMatch") /\ Returned(u, "isMatch")
        /\ re[t] = re[u] /\ re[t] \in handles
        /\ onProgram[t] = heap[re[t]]
        /\ ret[t] = 1 /\ ret[u] = 0

\* C4: a call that ran while another call was running on the same handle
\* holds, and returns, what it would have held and returned alone.
C4_ConcurrentAsAlone ==
    \A t \in Callers :
        overlap[t] =>
            /\ pc[t] = "isMatch_return" =>
                  (rc[t] = 0) <=> (Alone(onProgram[t], input[t]) = 1)
            /\ Returned(t, "isMatch") => ret[t] = Alone(onProgram[t], input[t])

\* C4 witness: two calls overlapped on one handle with inputs on which the
\* handle answers differently; one has returned, the other is about to.
C4_Witness ==
    \E t, u \in Callers :
        /\ t # u /\ re[t] = re[u]
        /\ overlap[t] /\ overlap[u]
        /\ Returned(t, "isMatch") /\ pc[u] = "isMatch_return"
        /\ ret[t] = 1
        /\ Alone(onProgram[u], input[u]) = 0

====
